---- MODULE Spec2Model ----
(***************************************************************************)
(* Model of the cortex toolbox: construction of Helmholtz machines         *)
(* (cortex/models/helmholtz.py: unpack, Helmholtz.__init__, factory,       *)
(* mlp_factory, the parameter accessors) and the interactive setup script  *)
(* (cortex/__init__.py: main).                                             *)
(*                                                                         *)
(* Python values are modelled as strings: None is "None", a key that is    *)
(* missing from a dict is "absent", a keyword argument the caller did not  *)
(* pass is "omitted".  Dimensions are opaque to the code (they are only    *)
(* copied and compared), so they are the strings "1", "2", ...             *)
(* A dict argument is a record with isNone = TRUE when the caller passed   *)
(* None and one field per key otherwise.  An object that was not built is  *)
(* NoObj.                                                                  *)
(***************************************************************************)
EXTENDS Integers, Sequences, FiniteSets, TLC

VARIABLES
    call,       \* the library call made: entry point and arguments
    ret,        \* what the call returned or raised, and what it built on the way
    rec_args,   \* the caller's rec_args dict as the caller sees it after the call
    gen_args,   \* the caller's gen_args dict as the caller sees it after the call
    mpc,        \* setup script: position in main
    menv,       \* setup script: what the user typed and the environment answered
    printed,    \* setup script: messages printed by the fetch handlers and the last step
    merr        \* setup script: the exception main terminated with, "none" otherwise

vars == <<call, ret, rec_args, gen_args, mpc, menv, printed, merr>>
libvars == <<call, ret, rec_args, gen_args>>
mainvars == <<mpc, menv, printed, merr>>

\* ---------------------------------------------------------------- bounds
MaxDim == 2
MaxParams == 2

\* ---------------------------------------------------------------- values
None == "None"
Absent == "absent"
Omitted == "omitted"

Dims == {ToString(i) : i \in 1..MaxDim}
NoObj == [built |-> FALSE]
NoneDict == [isNone |-> TRUE]

\* distributions.py exports these classes to helmholtz.py (lines 15-22)
SupportedPriorClasses == {"Binomial", "Gaussian", "Logistic", "Laplace"}

\* Distribution instances a caller can pass as prior, by the name of the object;
\* whether calling one is possible is decided by its class in distributions.py
PriorObjects == {"<Distribution object>", "<callable Distribution object>"}

\* isinstance(prior, Distribution), for a prior that is None, a type string or
\* one of these objects
IsDistribution(prior) == prior \in PriorObjects

\* PC(dim_h) for PC an instance: TypeError when the object is not callable,
\* otherwise whatever its __call__ returns, an object of which nothing is known
CallObject(obj, arg) ==
    IF obj = "<callable Distribution object>"
    THEN [err |-> "none", value |-> [built |-> TRUE, cls |-> "object", dim |-> Absent]]
    ELSE [err |-> "TypeError", value |-> NoObj]

\* distributions.resolve: the class for a type string; an unsupported string
\* is an error.
resolve_prior(prior) ==
    CASE prior = "binomial" -> [err |-> "none", cls |-> "Binomial"]
      [] prior = "gaussian" -> [err |-> "none", cls |-> "Gaussian"]
      [] prior = "logistic" -> [err |-> "none", cls |-> "Logistic"]
      [] prior = "laplace"  -> [err |-> "none", cls |-> "Laplace"]
      [] OTHER              -> [err |-> "ValueError", cls |-> None]

\* mlp.resolve: None resolves to the plain MLP class, 'dag' to the graph class.
resolve_mlp(t) ==
    IF t \in {Absent, None} THEN "MLP" ELSE IF t = "dag" THEN "DAG" ELSE t

\* RC.factory(**rec_args) / GC.factory(**gen_args): the network the class
\* builds from the keyword arguments it is given.
net_factory(cls, args) ==
    [built |-> TRUE, cls |-> cls, dim_in |-> args.dim_in, dim_out |-> args.dim_out,
     distribution |-> args.distribution,
     graph_outputs |-> args.graph_outputs_list,
     graph_out_dim |-> args.graph_out_dim,
     graph_out_distribution |-> args.graph_out_distribution]

\* dict(): a dict with no keys
EmptyDict ==
    [isNone |-> FALSE, output |-> Absent, type |-> Absent, dim_in |-> Absent,
     dim_out |-> Absent, distribution |-> Absent,
     graph |-> Absent,                  \* the key 'graph': absent, or "graph"
     graph_outputs |-> Absent,          \* the key 'outputs' of the graph: absent, or "outputs"
     graph_outputs_list |-> <<>>,       \* gen_args['graph']['outputs']
     graph_outs |-> Absent,             \* the key 'outs' of the graph: absent, or "outs"
     graph_out_dim |-> Absent,          \* gen_args['graph']['outs'][output_name]['dim']
     graph_out_distribution |-> Absent] \* ...['outs'][output_name]['distribution']

\* ------------------------------------------------- Helmholtz.__init__
\* the class of an object and the classes it derives from
Bases(cls) == IF cls = "GaussianSubclass" THEN {"GaussianSubclass", "Gaussian"} ELSE {cls}

\* isinstance(prior, C): true for instances of C and of its subclasses
isinstance(prior, C) == C \in Bases(prior.cls)

\* a constructor that names every unrecognised prior 'sbn' instead of rejecting it
DefaultName_fallback(prior) ==
    IF isinstance(prior, "Gaussian") THEN "gbn"
    ELSE IF isinstance(prior, "Logistic") THEN "lbn"
    ELSE IF isinstance(prior, "Laplace") THEN "labn"
    ELSE "sbn"

\* the name chosen when name is None; None when no branch matches
DefaultName(prior) ==
    IF isinstance(prior, "Binomial") THEN "sbn"
    ELSE IF isinstance(prior, "Gaussian") THEN "gbn"
    ELSE IF isinstance(prior, "Logistic") THEN "lbn"
    ELSE IF isinstance(prior, "Laplace") THEN "labn"
    ELSE None

HelmholtzRaise(e) ==
    [err |-> e, built |-> FALSE, weights_init |-> FALSE, rngs_init |-> FALSE,
     layer_init |-> FALSE]

HelmholtzInit(posterior, conditional, prior, name) ==
    IF prior.dim = Absent
    THEN HelmholtzRaise("AttributeError")
    ELSE IF name = None /\ DefaultName(prior) = None
    THEN HelmholtzRaise("ValueError")
    ELSE [err |-> "none", built |-> TRUE,
          posterior |-> posterior, conditional |-> conditional,
          prior |-> prior, dim_h |-> prior.dim,
          name |-> IF name = None THEN DefaultName(prior) ELSE name,
          weights_init |-> TRUE, rngs_init |-> TRUE, layer_init |-> TRUE]

\* ------------------------------------------------- Helmholtz.mlp_factory
\* What mlp_factory raised or returned, the objects it had built by then, and
\* the caller's two dicts as the call left them.
MlpResult(err, prior_model, posterior, conditional, rec, gen) ==
    [err |-> err, prior_model |-> prior_model, posterior |-> posterior,
     conditional |-> conditional, rec_args |-> rec, gen_args |-> gen]

\* the dict object the caller holds: untouched when the caller passed None
\* (the function then works on a dict of its own)
CallerView(arg, local) == IF arg.isNone THEN arg ELSE local

\* d.get(key) in place of d[key]: a missing key is not an error
KeyError_get(d, key) == FALSE

\* d[key] raises KeyError when the dict has no such key
KeyError(d, key) == d[key] = Absent

\* lines 210-211: gen_args['graph']['outputs'] is read to start the loop, and
\* gen_args['graph']['outs'] in each of its rounds
GraphKeyError(d) ==
    \/ KeyError(d, "graph")
    \/ KeyError(d, "graph_outputs")
    \/ (Len(d.graph_outputs_list) > 0 /\ KeyError(d, "graph_outs"))

mlp_factory(dim_in, dim_h, dim_out, data_distribution, prior, rec_args_in, gen_args_in) ==
    LET rec0 == IF rec_args_in.isNone THEN EmptyDict ELSE rec_args_in
        gen0 == IF gen_args_in.isNone THEN EmptyDict ELSE gen_args_in
        prior1 == IF prior = None
                  THEN IF rec0.distribution \in {Absent, None}
                       THEN "binomial"
                       ELSE rec0.distribution
                  ELSE prior
        PC == IF IsDistribution(prior1)
              THEN [err |-> "none", cls |-> prior1]
              ELSE resolve_prior(prior1)
        made == IF IsDistribution(prior1)
                THEN CallObject(PC.cls, dim_h)
                ELSE [err |-> "none",
                      value |-> [built |-> TRUE, cls |-> PC.cls, dim |-> dim_h]]
        prior_model == made.value
        RC == resolve_mlp(rec0.type)
        rec1 == [rec0 EXCEPT
                   !.distribution = IF @ \in {Absent, None} THEN prior1 ELSE @,
                   !.dim_in = dim_in,
                   !.dim_out = dim_h]
        posterior == net_factory(RC, rec1)
        gen1 == [gen0 EXCEPT !.dim_in = dim_h]
        t == gen0.type
        GC == IF t = "darn" THEN "DARN" ELSE resolve_mlp(t)
        gen2 == IF t = "dag"
                THEN IF Len(gen1.graph_outputs_list) > 0
                     THEN [gen1 EXCEPT !.graph_out_dim = dim_out,
                                       !.graph_out_distribution = data_distribution]
                     ELSE gen1
                ELSE [gen1 EXCEPT !.dim_out = dim_out,
                                  !.distribution = data_distribution]
        conditional == net_factory(GC, gen2)
    IN  IF PC.err # "none"
        THEN MlpResult(PC.err, NoObj, NoObj, NoObj, rec_args_in, gen_args_in)
        ELSE IF made.err # "none"
        THEN MlpResult(made.err, NoObj, NoObj, NoObj, rec_args_in, gen_args_in)
        ELSE IF KeyError(gen0, "output")
        THEN MlpResult("KeyError", prior_model, posterior, NoObj,
                       CallerView(rec_args_in, rec1), gen_args_in)
        ELSE IF t = "dag" /\ GraphKeyError(gen1)
        THEN MlpResult("KeyError", prior_model, posterior, NoObj,
                       CallerView(rec_args_in, rec1), CallerView(gen_args_in, gen1))
        ELSE IF conditional.distribution = None \/ posterior.distribution = None
        THEN MlpResult("AssertionError", prior_model, posterior, conditional,
                       CallerView(rec_args_in, rec1), CallerView(gen_args_in, gen2))
        ELSE MlpResult("none", prior_model, posterior, conditional,
                       CallerView(rec_args_in, rec1), CallerView(gen_args_in, gen2))

\* ------------------------------------------------- Helmholtz.factory
FactoryResult(err, mlp_called, m, model, rec, gen) ==
    [err |-> err, factory_called |-> TRUE, mlp_called |-> mlp_called,
     prior_model |-> m.prior_model, posterior |-> m.posterior,
     conditional |-> m.conditional, model |-> model,
     rec_args |-> rec, gen_args |-> gen]

NothingBuilt == [prior_model |-> NoObj, posterior |-> NoObj, conditional |-> NoObj]

factory(dim_in, dim_h, dim_out, data_distribution, prior, rec_args_in, gen_args_in) ==
    LET dim_out1 == IF dim_out \in {None, Omitted} THEN dim_in ELSE dim_out
        dd == IF data_distribution = Omitted THEN "binomial" ELSE data_distribution
        m == mlp_factory(dim_in, dim_h, dim_out1, dd, prior, rec_args_in, gen_args_in)
        model == HelmholtzInit(m.posterior, m.conditional, m.prior_model, None)
    IN  IF dd = None
        THEN FactoryResult("AssertionError", FALSE, NothingBuilt, NoObj,
                           rec_args_in, gen_args_in)
        ELSE IF m.err # "none"
        THEN FactoryResult(m.err, TRUE, m, NoObj, m.rec_args, m.gen_args)
        ELSE FactoryResult(model.err, TRUE, m,
                           IF model.err = "none" THEN model ELSE NoObj,
                           m.rec_args, m.gen_args)

\* ------------------------------------------------- unpack
\* unpack without its own check of data_distribution
unpack_unchecked(dim_in, dim_h, dim_out, prior, data_distribution, rec_args_in, gen_args_in) ==
    factory(dim_in, dim_h, Omitted, data_distribution, prior, rec_args_in, gen_args_in)

unpack(dim_in, dim_h, dim_out, prior, data_distribution, rec_args_in, gen_args_in) ==
    LET f == factory(dim_in, dim_h, Omitted, data_distribution, prior,
                     rec_args_in, gen_args_in)
    IN  IF data_distribution = None
        THEN [FactoryResult("ValueError", FALSE, NothingBuilt, NoObj,
                            rec_args_in, gen_args_in)
                EXCEPT !.factory_called = FALSE]
        ELSE f

\* ------------------------------------------------- parameter accessors
\* component.get_params(): the component's own parameters, n_params of them
component_params(comp, n) == [i \in 1..n |-> <<comp, i>>]

Min(a, b) == IF a < b THEN a ELSE b

\* params[start:stop] for non-negative start and stop
PySlice(params, start, stop) ==
    SubSeq(params, Min(start, Len(params)) + 1, Min(stop, Len(params)))

get_params(self) ==
    component_params("prior", self.prior.n_params)
        \o component_params("conditional", self.conditional.n_params)
        \o component_params("posterior", self.posterior.n_params)

get_prior_params(self, params) ==
    PySlice(params, 0, self.prior.n_params)

\* the posterior slice taken right after the prior's parameters
get_posterior_params_skip(self, params) ==
    LET start == self.prior.n_params
        stop  == start + self.posterior.n_params
    IN  PySlice(params, start, stop)

get_posterior_params(self, params) ==
    LET start == self.prior.n_params + self.conditional.n_params
        stop  == start + self.posterior.n_params
    IN  PySlice(params, start, stop)

\* the arguments p_y_given_h hands to conditional.step_feed
p_y_given_h(self, h, params) ==
    LET start == self.prior.n_params
        stop  == start + self.conditional.n_params
    IN  [h |-> h, params |-> PySlice(params, start, stop)]

\* ------------------------------------------------- inputs of the library calls
DimOutArgs == Dims \cup {None}
DataDistributions == {"binomial", "gaussian"}
\* prior: None, a type string (one of them unsupported), or a Distribution instance
PriorArgs == {None, "gaussian", "laplace", "poisson"} \cup PriorObjects
RecArgs == {NoneDict} \cup {[EmptyDict EXCEPT !.distribution = d] : d \in {Absent, "logistic"}}
Graphs ==
    {[graph |-> Absent, outputs_key |-> Absent, outputs |-> <<>>, outs |-> Absent]}
    \cup {[graph |-> "graph", outputs_key |-> Absent, outputs |-> <<>>, outs |-> o] :
             o \in {Absent, "outs"}}
    \cup {[graph |-> "graph", outputs_key |-> "outputs", outputs |-> l, outs |-> o] :
             l \in {<<>>, <<"x">>}, o \in {Absent, "outs"}}
GenArgs ==
    {NoneDict}
    \cup {[EmptyDict EXCEPT !.output = o, !.type = t] :
             o \in {Absent, "x"}, t \in {Absent, "darn"}}
    \cup {[EmptyDict EXCEPT !.output = o, !.type = "dag", !.graph = g.graph,
                            !.graph_outputs = g.outputs_key,
                            !.graph_outputs_list = g.outputs,
                            !.graph_outs = g.outs] :
             o \in {Absent, "x"}, g \in Graphs}
PriorInstances ==
    {[built |-> TRUE, cls |-> c, dim |-> d] :
        c \in SupportedPriorClasses \cup {"GaussianSubclass", "OtherDistribution"},
        d \in Dims}
NameArgs == {None, "custom"}
ParamCounts == 0..MaxParams
Models ==
    {[prior |-> [n_params |-> a], conditional |-> [n_params |-> b],
      posterior |-> [n_params |-> c]] : a \in ParamCounts, b \in ParamCounts, c \in ParamCounts}

Idle == call.entry = "idle"

\* ------------------------------------------------- library calls
CallUnpack ==
    /\ Idle
    /\ \E dim_in \in Dims, dim_h \in Dims, dim_out \in DimOutArgs, prior \in PriorArgs,
          data_distribution \in DataDistributions \cup {None},
          ra \in RecArgs, ga \in GenArgs :
          LET r == unpack(dim_in, dim_h, dim_out, prior, data_distribution, ra, ga)
          IN  /\ call' = [entry |-> "unpack", dim_in |-> dim_in, dim_h |-> dim_h,
                          dim_out |-> dim_out, prior |-> prior,
                          data_distribution |-> data_distribution,
                          rec_args |-> ra, gen_args |-> ga]
              /\ ret' = r
              /\ rec_args' = r.rec_args
              /\ gen_args' = r.gen_args
    /\ UNCHANGED mainvars

CallFactory ==
    /\ Idle
    /\ \E dim_in \in Dims, dim_h \in Dims, dim_out \in DimOutArgs \cup {Omitted},
          prior \in PriorArgs,
          data_distribution \in DataDistributions \cup {None, Omitted},
          ra \in RecArgs, ga \in GenArgs :
          LET r == factory(dim_in, dim_h, dim_out, data_distribution, prior, ra, ga)
          IN  /\ call' = [entry |-> "factory", dim_in |-> dim_in, dim_h |-> dim_h,
                          dim_out |-> dim_out, prior |-> prior,
                          data_distribution |-> data_distribution,
                          rec_args |-> ra, gen_args |-> ga]
              /\ ret' = r
              /\ rec_args' = r.rec_args
              /\ gen_args' = r.gen_args
    /\ UNCHANGED mainvars

CallMlpFactory ==
    /\ Idle
    /\ \E dim_in \in Dims, dim_h \in Dims, dim_out \in Dims, prior \in PriorArgs,
          data_distribution \in DataDistributions,
          ra \in RecArgs, ga \in GenArgs :
          LET r == mlp_factory(dim_in, dim_h, dim_out, data_distribution, prior, ra, ga)
          IN  /\ call' = [entry |-> "mlp_factory", dim_in |-> dim_in, dim_h |-> dim_h,
                          dim_out |-> dim_out, prior |-> prior,
                          data_distribution |-> data_distribution,
                          rec_args |-> ra, gen_args |-> ga]
              /\ ret' = r
              /\ rec_args' = r.rec_args
              /\ gen_args' = r.gen_args
    /\ UNCHANGED mainvars

CallHelmholtz ==
    /\ Idle
    /\ \E prior \in PriorInstances, name \in NameArgs, dim_in \in Dims :
          LET posterior == net_factory("MLP",
                  [EmptyDict EXCEPT !.dim_in = dim_in, !.dim_out = prior.dim,
                                    !.distribution = "binomial"])
              conditional == net_factory("MLP",
                  [EmptyDict EXCEPT !.dim_in = prior.dim, !.dim_out = dim_in,
                                    !.distribution = "binomial"])
          IN  /\ call' = [entry |-> "Helmholtz", posterior |-> posterior,
                          conditional |-> conditional, prior |-> prior, name |-> name]
              /\ ret' = HelmholtzInit(posterior, conditional, prior, name)
    /\ UNCHANGED <<rec_args, gen_args>>
    /\ UNCHANGED mainvars

CallGetParams ==
    /\ Idle
    /\ \E self \in Models :
          /\ call' = [entry |-> "get_params", self |-> self]
          /\ ret' = [err |-> "none", value |-> get_params(self)]
    /\ UNCHANGED <<rec_args, gen_args>>
    /\ UNCHANGED mainvars

CallGetPriorParams ==
    /\ Idle
    /\ \E self \in Models :
          /\ call' = [entry |-> "get_prior_params", self |-> self]
          /\ ret' = [err |-> "none", value |-> get_prior_params(self, get_params(self))]
    /\ UNCHANGED <<rec_args, gen_args>>
    /\ UNCHANGED mainvars

CallGetPosteriorParams ==
    /\ Idle
    /\ \E self \in Models :
          /\ call' = [entry |-> "get_posterior_params", self |-> self]
          /\ ret' = [err |-> "none", value |-> get_posterior_params(self, get_params(self))]
    /\ UNCHANGED <<rec_args, gen_args>>
    /\ UNCHANGED mainvars

CallPYGivenH ==
    /\ Idle
    /\ \E self \in Models :
          /\ call' = [entry |-> "p_y_given_h", self |-> self]
          /\ ret' = [err |-> "none",
                     value |-> p_y_given_h(self, "h", get_params(self)).params]
    /\ UNCHANGED <<rec_args, gen_args>>
    /\ UNCHANGED mainvars

\* ------------------------------------------------- setup script: main
\* what the fetchers can end with: success, an HTTP error status from the
\* server (urllib2.HTTPError), or a failure to reach the server at all
\* (urllib2.URLError, of which HTTPError is a subclass)
FetchOutcomes == {"ok", "HTTPError", "URLError"}
FetchErrors == FetchOutcomes \ {"ok"}

\* `except urllib2.HTTPError`: catches HTTPError and its subclasses only
ExceptHTTPError(exc) == exc = "HTTPError"

ExistingDirs == {"/", "/home", "/root", "/data", "/outs", "/usr/sbin"}
TypedPaths == {"", "/data", "/missing", "~", "~/data", "~root", "~daemon", "~nobody",
               "~nosuchuser"}
Homes == {"/data", "/home", "/"}
PathDefaults == [k \in {"$data", "$outs"} |-> IF k = "$data" THEN "/data" ELSE "/outs"]

\* os.path.isdir
isdir(p) == p \in ExistingDirs

\* the password database (pwd.getpwnam(user).pw_dir): the home directory of
\* each user it knows, here the system accounts of a Debian base installation;
\* the home of nobody and _apt is a directory that does not exist
Passwd ==
    "root" :> "/root" @@ "daemon" :> "/usr/sbin" @@ "bin" :> "/bin" @@
    "sys" :> "/dev" @@ "sync" :> "/bin" @@ "games" :> "/usr/games" @@
    "man" :> "/var/cache/man" @@ "lp" :> "/var/spool/lpd" @@
    "mail" :> "/var/mail" @@ "news" :> "/var/spool/news" @@
    "uucp" :> "/var/spool/uucp" @@ "proxy" :> "/bin" @@
    "www-data" :> "/var/www" @@ "backup" :> "/var/backups" @@
    "list" :> "/var/list" @@ "irc" :> "/run/ircd" @@
    "_apt" :> "/nonexistent" @@ "nobody" :> "/nonexistent"

\* s.rstrip('/')
RECURSIVE rstrip_slash(_)
rstrip_slash(s) ==
    IF Len(s) > 0 /\ SubSeq(s, Len(s), Len(s)) = "/"
    THEN rstrip_slash(SubSeq(s, 1, Len(s) - 1))
    ELSE s

\* posixpath.expanduser with HOME set to home: a leading '~' up to the first
\* '/' is replaced by the home directory less its trailing slashes; '~user'
\* of a user the password database does not know leaves the path as it is
expanduser(p, home) ==
    IF ~(Len(p) > 0 /\ SubSeq(p, 1, 1) = "~")
    THEN p
    ELSE LET slashes == {k \in 2..Len(p) : SubSeq(p, k, k) = "/"}
             i == IF slashes = {} THEN Len(p) + 1
                  ELSE CHOOSE k \in slashes : \A j \in slashes : k <= j
             user == SubSeq(p, 2, i - 1)
             known == i = 2 \/ user \in DOMAIN Passwd
             userhome == IF i = 2 THEN home ELSE Passwd[user]
             expanded == rstrip_slash(userhome) \o SubSeq(p, i, Len(p))
         IN  IF ~known THEN p
             ELSE IF expanded = "" THEN "/" ELSE expanded

\* posixpath.join(a, b)
join(a, b) ==
    IF Len(b) > 0 /\ SubSeq(b, 1, 1) = "/" THEN b
    ELSE IF a = "" \/ SubSeq(a, Len(a), Len(a)) = "/" THEN a \o b
    ELSE a \o "/" \o b

\* raw_input(prompt) or default, when the key is configured; raw_input(prompt) otherwise
PromptPath(path_dict, key, typed) ==
    IF key \in path_dict
    THEN IF typed # "" THEN typed ELSE PathDefaults[key]
    ELSE typed

\* lines 30-33: get_paths(), an unreadable configuration giving an empty dict
MainGetPaths ==
    /\ mpc = "start"
    /\ \E raises \in BOOLEAN, conf \in SUBSET {"$data", "$outs"}, home \in Homes :
          menv' = [menv EXCEPT !.path_dict = IF raises THEN {} ELSE conf,
                               !.home = home]
    /\ mpc' = "data_path"
    /\ UNCHANGED <<printed, merr>>
    /\ UNCHANGED libvars

\* lines 35-42
MainDataPath ==
    /\ mpc = "data_path"
    /\ \E typed \in TypedPaths :
          LET data_path == expanduser(PromptPath(menv.path_dict, "$data", typed),
                                      menv.home)
          IN  /\ menv' = [menv EXCEPT !.data_path = data_path]
              /\ IF isdir(data_path)
                 THEN mpc' = "out_path" /\ UNCHANGED merr
                 ELSE mpc' = "raised" /\ merr' = "ValueError"
    /\ UNCHANGED printed
    /\ UNCHANGED libvars

\* lines 44-52
MainOutPath ==
    /\ mpc = "out_path"
    /\ \E typed \in TypedPaths :
          LET out_path == expanduser(PromptPath(menv.path_dict, "$outs", typed),
                                     menv.home)
          IN  IF isdir(out_path)
              THEN /\ menv' = [menv EXCEPT !.out_path = out_path, !.conf_written = TRUE]
                   /\ mpc' = "ask_basic"
                   /\ UNCHANGED merr
              ELSE /\ menv' = [menv EXCEPT !.out_path = out_path]
                   /\ mpc' = "raised"
                   /\ merr' = "ValueError"
    /\ UNCHANGED printed
    /\ UNCHANGED libvars

\* line 59-61
MainAskBasic ==
    /\ mpc = "ask_basic"
    /\ \E answer \in BOOLEAN :
          /\ menv' = [menv EXCEPT !.basic = IF answer THEN "fetching" ELSE "declined"]
          /\ mpc' = IF answer THEN "fetch_basic" ELSE "ask_neuro"
    /\ UNCHANGED <<printed, merr>>
    /\ UNCHANGED libvars

\* lines 62-65
MainFetchBasic ==
    /\ mpc = "fetch_basic"
    /\ \E outcome \in FetchOutcomes :
          /\ menv' = [menv EXCEPT !.basic = outcome]
          /\ IF outcome = "ok"
             THEN mpc' = "ask_neuro" /\ UNCHANGED <<printed, merr>>
             ELSE IF ExceptHTTPError(outcome)
             THEN /\ mpc' = "ask_neuro"
                  /\ printed' = Append(printed, "Error: basic dataset not found.")
                  /\ UNCHANGED merr
             ELSE /\ mpc' = "raised"
                  /\ merr' = outcome
                  /\ UNCHANGED printed
    /\ UNCHANGED libvars

\* lines 67-72
MainAskNeuro ==
    /\ mpc = "ask_neuro"
    /\ \E answer \in BOOLEAN :
          /\ menv' = [menv EXCEPT !.neuro = IF answer THEN "fetching" ELSE "declined"]
          /\ mpc' = IF answer THEN "fetch_neuro" ELSE "theanorc"
    /\ UNCHANGED <<printed, merr>>
    /\ UNCHANGED libvars

\* lines 73-76
MainFetchNeuro ==
    /\ mpc = "fetch_neuro"
    /\ \E outcome \in FetchOutcomes :
          /\ menv' = [menv EXCEPT !.neuro = outcome]
          /\ IF outcome = "ok"
             THEN mpc' = "theanorc" /\ UNCHANGED <<printed, merr>>
             ELSE IF ExceptHTTPError(outcome)
             THEN /\ mpc' = "theanorc"
                  /\ printed' = Append(printed, "Error: neuroimaging dataset not found.")
                  /\ UNCHANGED merr
             ELSE /\ mpc' = "raised"
                  /\ merr' = outcome
                  /\ UNCHANGED printed
    /\ UNCHANGED libvars

\* lines 78-82
MainTheanorc ==
    /\ mpc = "theanorc"
    /\ \E isfile \in BOOLEAN :
          IF isfile
          THEN UNCHANGED <<menv, printed>>
          ELSE LET home == expanduser("~", menv.home)
                   trc == join(home, ".theanorc")
               IN  /\ menv' = [menv EXCEPT !.theanorc_written = TRUE]
                   /\ printed' = Append(printed, "No " \o trc \o " found, adding")
    /\ mpc' = "done"
    /\ UNCHANGED merr
    /\ UNCHANGED libvars

\* ------------------------------------------------- specification
Init ==
    /\ call = [entry |-> "idle"]
    /\ ret = [err |-> "none"]
    /\ rec_args = NoneDict
    /\ gen_args = NoneDict
    /\ mpc = "start"
    /\ menv = [path_dict |-> {}, home |-> None, data_path |-> None, out_path |-> None,
               conf_written |-> FALSE, basic |-> "unasked", neuro |-> "unasked",
               theanorc_written |-> FALSE]
    /\ printed = <<>>
    /\ merr = "none"

Next ==
    \/ CallUnpack
    \/ CallFactory
    \/ CallMlpFactory
    \/ CallHelmholtz
    \/ CallGetParams
    \/ CallGetPriorParams
    \/ CallGetPosteriorParams
    \/ CallPYGivenH

Spec == Init /\ [][Next]_vars

NextMain ==
    \/ MainGetPaths
    \/ MainDataPath
    \/ MainOutPath
    \/ MainAskBasic
    \/ MainFetchBasic
    \/ MainAskNeuro
    \/ MainFetchNeuro
    \/ MainTheanorc

SpecMain == Init /\ [][NextMain]_vars

\* ------------------------------------------------- properties
\* the caller left out gen_args['output'] (gen_args None, or a dict without the key)
OutputMissing == call.gen_args.isNone \/ call.gen_args.output = Absent

\* the prior is an instance of none of the four classes the constructor knows
UnsupportedPrior(prior) == \A C \in SupportedPriorClasses : ~isinstance(prior, C)

\* the conditional network has an output (a graph network may declare none)
HasOutput(c) == c.cls = "DAG" => Len(c.graph_outputs) > 0

\* the output dimension the conditional network was built with
CondDimOut(c) == IF c.cls = "DAG" THEN c.graph_out_dim ELSE c.dim_out

\* the data distribution the conditional network was built with
CondDistribution(c) == IF c.cls = "DAG" THEN c.graph_out_distribution ELSE c.distribution

\* C1: unpack called with data_distribution=None raises ValueError before
\* Helmholtz.factory is invoked, so that no model, posterior, conditional or
\* prior is constructed; with any other data_distribution unpack's own
\* ValueError is not raised and factory is invoked.
C1_UnpackNeedsDataDistribution ==
    call.entry = "unpack" =>
        /\ call.data_distribution = None =>
              /\ ret.err = "ValueError"
              /\ ~ret.factory_called
              /\ ~ret.model.built
              /\ ~ret.posterior.built
              /\ ~ret.conditional.built
              /\ ~ret.prior_model.built
              /\ rec_args = call.rec_args
              /\ gen_args = call.gen_args
        /\ call.data_distribution # None => ret.factory_called

C1_Witness ==
    /\ call.entry = "unpack"
    /\ call.data_distribution = None
    /\ ~call.gen_args.isNone
    /\ call.gen_args.output = "x"
    /\ ret.err = "ValueError"

\* C2 as stated: a Helmholtz whose prior is none of Binomial, Gaussian, Logistic,
\* Laplace raises ValueError at construction, whatever the name argument, before
\* weights and RNGs are initialised and before the Layer initialiser runs.
C2_UnsupportedPriorAnyName ==
    (call.entry = "Helmholtz" /\ UnsupportedPrior(call.prior)) =>
        /\ ret.err = "ValueError"
        /\ ~ret.built
        /\ ~ret.weights_init
        /\ ~ret.rngs_init
        /\ ~ret.layer_init

\* C2 amended: with name=None, a Helmholtz whose prior is none of Binomial,
\* Gaussian, Logistic, Laplace raises ValueError at construction, before weights
\* and RNGs are initialised and before the Layer initialiser runs; with an
\* explicit name the prior's class is not tested and no ValueError is raised.
C2_UnsupportedPriorDefaultName ==
    (call.entry = "Helmholtz" /\ UnsupportedPrior(call.prior)) =>
        /\ call.name = None =>
              /\ ret.err = "ValueError"
              /\ ~ret.built
              /\ ~ret.weights_init
              /\ ~ret.rngs_init
              /\ ~ret.layer_init
        /\ call.name # None =>
              /\ ret.err # "ValueError"
              /\ ret.built
              /\ ret.name = call.name

C2_Witness ==
    /\ call.entry = "Helmholtz"
    /\ call.prior.cls = "OtherDistribution"
    /\ call.name = None
    /\ ret.err = "ValueError"

\* C3: every fetch failure of fetch_basic_data or fetch_neuroimaging_data is
\* caught and reported, and main goes on: after a failed basic fetch the
\* neuroimaging prompt is reached, after a failed neuroimaging fetch the
\* ~/.theanorc step is reached, and main never terminates with the fetch error.
C3_FetchFailuresCaught ==
    /\ merr \notin FetchErrors
    /\ menv.basic \in FetchErrors =>
          /\ mpc \in {"ask_neuro", "fetch_neuro", "theanorc", "done"}
          /\ Len(printed) >= 1
          /\ printed[1] = "Error: basic dataset not found."
    /\ menv.neuro \in FetchErrors =>
          /\ mpc \in {"theanorc", "done"}
          /\ \E i \in 1..Len(printed) : printed[i] = "Error: neuroimaging dataset not found."

\* C4 as stated: mlp_factory, and factory through it, called without
\* gen_args['output'] fails and returns no model, and the error comes before the
\* posterior network is built and before the caller's rec_args is modified.
C4_MissingOutputFailsFirst ==
    (call.entry \in {"mlp_factory", "factory"} /\ OutputMissing) =>
        /\ ret.err # "none"
        /\ ~ret.conditional.built
        /\ ~ret.posterior.built
        /\ rec_args = call.rec_args

\* C4 amended: mlp_factory, and factory through it, called without
\* gen_args['output'] fails and returns no model; the conditional is not built
\* and gen_args is not modified, but the missing key is reported (KeyError) only
\* after the prior model has been formed (the resolved class, or the instance
\* passed as prior, called with dim_h) and the posterior network built, and
\* after a rec_args dict passed by the caller has been given dim_in, dim_out
\* and, if it had none, the prior as its distribution.
C4_MissingOutputFailsLate ==
    (call.entry \in {"mlp_factory", "factory"} /\ OutputMissing) =>
        /\ ret.err # "none"
        /\ ~ret.conditional.built
        /\ call.entry = "factory" => ~ret.model.built
        /\ gen_args = call.gen_args
        /\ ret.err = "KeyError" =>
              /\ ret.prior_model.built
              /\ ret.posterior.built
              /\ ret.posterior.dim_in = call.dim_in
              /\ ret.posterior.dim_out = call.dim_h
              /\ ~call.rec_args.isNone =>
                    /\ rec_args.dim_in = call.dim_in
                    /\ rec_args.dim_out = call.dim_h
                    /\ rec_args.distribution \notin {Absent, None}
                    /\ call.rec_args.distribution \in {Absent, None} =>
                          rec_args.distribution =
                             (IF call.prior = None THEN "binomial" ELSE call.prior)
              /\ call.rec_args.isNone => rec_args = call.rec_args

C4_Witness ==
    /\ call.entry = "factory"
    /\ call.gen_args.isNone
    /\ ~call.rec_args.isNone
    /\ ret.err = "KeyError"
    /\ ret.posterior.built
    /\ rec_args.dim_out = call.dim_h
    /\ rec_args # call.rec_args

\* C5: factory called with data_distribution=None uses 'binomial': the call
\* does what the call with data_distribution omitted does, and where that one
\* succeeds the conditional is built with distribution 'binomial'.
C5_NoneMeansBinomial ==
    (call.entry = "factory" /\ call.data_distribution = None) =>
        LET omitted == factory(call.dim_in, call.dim_h, call.dim_out, Omitted,
                               call.prior, call.rec_args, call.gen_args)
        IN  /\ ret = omitted
            /\ omitted.err = "none" =>
                  /\ ret.err = "none"
                  /\ ret.conditional.built
                  /\ HasOutput(ret.conditional) =>
                        CondDistribution(ret.conditional) = "binomial"

\* C6: the conditional built by factory and by unpack has output dimension
\* dim_out when the caller gives one and dim_in when dim_out is None; the
\* posterior maps dim_in to dim_h and the conditional takes dim_h as input.
C6_OutputDimension ==
    (call.entry \in {"factory", "unpack"} /\ ret.conditional.built) =>
        /\ HasOutput(ret.conditional) =>
              CondDimOut(ret.conditional) =
                 (IF call.dim_out \in {None, Omitted} THEN call.dim_in ELSE call.dim_out)
        /\ ret.posterior.dim_in = call.dim_in
        /\ ret.posterior.dim_out = call.dim_h
        /\ ret.conditional.dim_in = call.dim_h

\* C7: for P = get_params() (prior, conditional, posterior parameters in this
\* order) get_prior_params(*P) is the prior's parameters, the slice p_y_given_h
\* hands to conditional.step_feed is the conditional's, get_posterior_params(*P)
\* is the posterior's; the slices are the contiguous index ranges 1..a,
\* a+1..a+b, a+b+1..a+b+c of P, which are disjoint and cover P.
C7_ParamsPartition ==
    (call.entry \in {"get_params", "get_prior_params", "get_posterior_params",
                     "p_y_given_h"}) =>
        LET self == call.self
            a == self.prior.n_params
            b == self.conditional.n_params
            c == self.posterior.n_params
            P == component_params("prior", a) \o component_params("conditional", b)
                    \o component_params("posterior", c)
        IN  /\ call.entry = "get_params" =>
                  ret.value = P /\ Len(ret.value) = a + b + c
            /\ call.entry = "get_prior_params" =>
                  /\ ret.value = component_params("prior", a)
                  /\ ret.value = [i \in 1..a |-> P[i]]
            /\ call.entry = "p_y_given_h" =>
                  /\ ret.value = component_params("conditional", b)
                  /\ ret.value = [i \in 1..b |-> P[a + i]]
            /\ call.entry = "get_posterior_params" =>
                  /\ ret.value = component_params("posterior", c)
                  /\ ret.value = [i \in 1..c |-> P[a + b + i]]

C7_Witness ==
    /\ call.entry = "get_posterior_params"
    /\ call.self.prior.n_params >= 1
    /\ call.self.conditional.n_params >= 1
    /\ call.self.posterior.n_params = MaxParams
    /\ ret.value = component_params("posterior", MaxParams)

====
